---- MODULE Spec2Model ----
(***************************************************************************)
(* A model of the MyScrapers ingestion pipeline:                           *)
(*   - the rate-limited notification dispatch queue (emailUtils.js, in     *)
(*     its two versions: the Resend one and the SendGrid one);             *)
(*   - the adapter runs (Euractiv, Eurobrussels, EU institutions) over     *)
(*     the document store with its sparse unique index on relativeLink.    *)
(***************************************************************************)
EXTENDS Integers, Sequences, FiniteSets, TLC

(***************************************************************************)
(* Bounds of the model                                                     *)
(***************************************************************************)
MaxTasks == 5       \* tasks sendEmail creates
MaxFairTasks == 3   \* the same, where the fairness of the drain is checked
MaxRows == 2        \* rows of the source's listing
MaxRuns == 2        \* adapter runs, one after the other
JobsPerCompany == 1 \* job boxes on a company page of the listing
MaxOtherSaves == 1  \* records saved meanwhile by another instance
MaxNotifyRuns == 1  \* adapter runs, where contacts are notified
MaxPageRows == 40   \* rows on a page of the paginated table
MaxTitleLen == 2    \* tokens of a candidate's title
MaxLocLen == 3      \* tokens of a candidate's location string
MaxDay == 2         \* the days on which things are published and expire
MaxTextLen == 3     \* tokens of a scanned text
MaxLinkLen == 3     \* tokens of a candidate's href

(***************************************************************************)
(* Program constants                                                       *)
(***************************************************************************)
REQUEST_LIMIT == 2

\* The two versions of helperFunctions/emailUtils.js in the repository.
Variants == {"resend", "sendgrid"}

TaskIds == 1..MaxTasks

\* Recipient addresses, as sequences of characters: a well-formed one, one
\* that lacks the '@', and the empty one.
Addresses == { <<"a", "@", "b">>, <<"a", "b">>, <<>> }

Min(a, b) == IF a < b THEN a ELSE b

\* String.prototype.includes for a single character.
Includes(s, c) == \E i \in 1..Len(s) : s[i] = c

SeqToSet(s) == { s[i] : i \in 1..Len(s) }

VARIABLES
    variant,            \* which emailUtils.js the process has loaded
    emailQueue,         \* let emailQueue = []  (task ids, in order)
    isProcessingQueue,  \* let isProcessingQueue = false
    email,              \* item.email of each task (<<"?">> before it exists)
    handle,             \* the promise sendEmail returned for the task
    result,             \* what became of sendEmailDirect(item...) for it
    curBatch,           \* the tasks of the batch processEmailQueue took last
    allPending,         \* Promise.all(...) of that batch is not settled yet
    timers,             \* setTimeout(processEmailQueue, TIME_WINDOW) pending
    nextTask,           \* the next task id sendEmail creates
    batchOf,            \* history: the batch number each task was taken in
    batchNo,            \* history: number of batches taken so far
    windowSinceBatch,   \* history: a window timer fired since the last batch
    windowless,         \* history: a batch was taken with no window timer
                        \* fired since the batch before it
    taskLimit           \* how many tasks the callers create (a bound)

VARIABLES
    store,              \* the Job collection: a set of records
    nextId,             \* the next _id the store hands out
    otherSaves,         \* records another instance of a scraper has saved
    listing,            \* the href of each row the source lists
    adapter,            \* the adapter script that is run
    runNo,              \* number of runs started
    pc,                 \* where the run is: idle, row, check, fetch, save, done
    idx,                \* the row the run is at
    existingLinks,      \* Euractiv: const existingLinks = new Set(...)
    finalApplyLink,     \* the apply link the fetched detail page gave
    preloaded,          \* history: existingLinks as loaded at the start
    verdict,            \* history: what the duplicate check said of each row
    fetched,            \* history: rows whose detail page was fetched
    saveResult,         \* history: what save did for each row
    contacts,           \* the lists of addresses a detail page may show
    apiKey,             \* process.env.RESEND_API_KEY is set
    emails,             \* the addresses found on the row's detail page
    emailPos,           \* position of `for (const email of emails)`
    sentEmails,         \* const sentEmails = new Set()
    awaited,            \* the task whose sendEmail promise the run awaits
    notified,           \* history: rows for which sendEmail was called
    runLimit,           \* how many runs are started (a bound)
    storeBefore,        \* history: the store when the run started
    savedCandidates,    \* history: the candidates the runs have saved
    stats,              \* let stats = { processed: 0, saved: 0, ... }
    conn                \* what became of the process's store connection

VARIABLES
    pager,              \* the paginated-table script that is run
    page,               \* let page = 0
    collected,          \* allJobs.length
    retries,            \* let retries = 0 of the page fetch under way
    ppc,                \* where the script is: fetch, backoff, persist, ...
    lastRows,           \* jobs.length of the page fetched last (-1: none)
    cursor,             \* position of `for (const job of allJobs)`
    pageFailed,         \* history: a page fetch failed past its retries
    savedAfterFailure,  \* history: a record was saved after that
    attempts,           \* history: axios.get calls made for the URL under way
    sleeps,             \* history: the backoff times slept for that URL
    jobDetails          \* what scrapeJobDetails returned for the job at hand

pvars == << pager, page, collected, retries, ppc, lastRows, cursor,
            pageFailed, savedAfterFailure, attempts, sleeps, jobDetails >>

VARIABLES
    src,                \* what the source gives for one candidate
    builder,            \* the adapter whose loop body handles it
    newJob              \* what the loop body made of it

bvars == << src, builder, newJob >>

\* The variables of the parts modelled apart from the queue and the runs.
xvars == << pvars, bvars >>

qvars == << variant, emailQueue, isProcessingQueue, email, handle, result,
            curBatch, allPending, timers, nextTask, batchOf, batchNo,
            windowSinceBatch, windowless, taskLimit >>

\* The locals of the loop body that serve the notification of a saved row.
notifyLocals == << emails, emailPos, sentEmails, awaited >>

\* The variables of an adapter run.
\* The state of the running script, the store apart.
runState == << nextId, otherSaves, listing, adapter, runNo, pc, idx,
               existingLinks, finalApplyLink, preloaded, verdict, fetched,
               saveResult, contacts, apiKey, notifyLocals, notified,
               runLimit, storeBefore, savedCandidates, stats, conn >>

avars == << store, runState >>

rvars == << avars, xvars >>

vars == << qvars, rvars >>

(***************************************************************************)
(* sendEmailDirect                                                         *)
(***************************************************************************)
\* The validation at the head of sendEmailDirect: !toEmail || !includes('@').
\* (SendGrid version: a null address makes toEmail.includes('%') throw
\* inside the inner try, whose catch only warns; cleanEmail stays toEmail.)
IsInvalidAddress(addr) == addr = <<>> \/ ~Includes(addr, "@")

\* A sendEmailDirect that skips the validation and calls the collaborator.
sendEmailDirectNoValidation(v, addr) == "inflight"

\* What calling sendEmailDirect does at once: it returns the
\* 'Invalid email address' result, or it calls the delivery collaborator
\* and awaits it.
sendEmailDirect(v, addr) ==
    IF IsInvalidAddress(addr) THEN "invalid" ELSE "inflight"

\* What sendEmailDirect's promise becomes when the collaborator's call
\* ends with `outcome` ("ack", "appError": it returned; "throw": it threw).
\* Resend version: the catch returns { error: error.message }.
\* SendGrid version: the catch block reads cleanEmail, which is declared
\* with let inside the try block: a ReferenceError leaves the function.
settleResult(v, outcome) ==
    IF outcome = "throw"
    THEN (IF v = "sendgrid" THEN "thrown" ELSE "caught")
    ELSE outcome

Fulfilled(res) == res \in {"ack", "appError", "invalid", "caught"}

\* The handle after the batch's map callback ran for a settled call.
\* SendGrid version: item.resolve(result), or item.reject(error) and rethrow.
\* Resend version: the callback is sendEmailDirect itself; item.resolve and
\* item.reject are never called.
handleAfter(v, res, h) ==
    IF v = "sendgrid"
    THEN CASE res = "ack"    -> "ack"
           [] res = "thrown" -> "rejected"
           [] OTHER          -> "error"
    ELSE h

(***************************************************************************)
(* processEmailQueue, called with the queue q and the handles h, while tm  *)
(* window timers are pending; w tells whether a window timer has fired     *)
(* since the last batch was taken (history only).                          *)
(***************************************************************************)
\* The empty-queue branch: isProcessingQueue = false; return.
stopDraining(q, h, tm, w) ==
    /\ isProcessingQueue' = FALSE
    /\ emailQueue' = q
    /\ handle' = h
    /\ timers' = tm
    /\ windowSinceBatch' = w
    /\ UNCHANGED << result, curBatch, allPending, batchOf, batchNo,
                    windowless >>

\* A slice that leaves the last task of the batch in the queue.
restOfQueueKeepsLast(q, n) == SubSeq(q, n, Len(q))

\* emailQueue.slice(REQUEST_LIMIT), n being the length of the batch
restOfQueue(q, n) == SubSeq(q, n + 1, Len(q))

\* The rest of processEmailQueue: take the first n tasks as the batch, call
\* sendEmailDirect for each, and chain the window timer on Promise.all.
takeBatch(q, h, tm, w, n) ==
    LET batch  == { q[i] : i \in 1..n }
        res(t) == sendEmailDirect(variant, email'[t])
    IN  /\ isProcessingQueue' = TRUE
        /\ emailQueue' = restOfQueue(q, n)
        \* batch.map(...): every item's sendEmailDirect is called now
        /\ result' = [t \in TaskIds |->
                        IF t \in batch THEN res(t) ELSE result[t]]
        /\ handle' = [t \in TaskIds |->
                        IF t \in batch /\ Fulfilled(res(t))
                        THEN handleAfter(variant, res(t), h[t])
                        ELSE h[t]]
        /\ curBatch' = batch
        /\ batchNo' = batchNo + 1
        /\ batchOf' = [t \in TaskIds |->
                        IF t \in batch THEN batchNo + 1 ELSE batchOf[t]]
        /\ windowSinceBatch' = FALSE
        /\ windowless' = (windowless \/ (batchNo > 0 /\ ~w))
        \* Promise.all(...).then(() => setTimeout(...)): at once when no
        \* call of the batch is awaiting the collaborator
        /\ IF \A t \in batch : Fulfilled(res(t))
           THEN allPending' = FALSE /\ timers' = tm + 1
           ELSE allPending' = TRUE /\ timers' = tm

\* A processEmailQueue that takes the whole queue as one batch.
processEmailQueueNoLimit(q, h, tm, w) ==
    IF q = <<>>
    THEN stopDraining(q, h, tm, w)
    ELSE takeBatch(q, h, tm, w, Len(q))

\* A processEmailQueue that returns on an empty queue without clearing
\* isProcessingQueue.
processEmailQueueKeepsFlag(q, h, tm, w) ==
    IF q = <<>>
    THEN /\ emailQueue' = q
         /\ handle' = h
         /\ timers' = tm
         /\ windowSinceBatch' = w
         /\ UNCHANGED << isProcessingQueue, result, curBatch, allPending,
                         batchOf, batchNo, windowless >>
    ELSE takeBatch(q, h, tm, w, Min(REQUEST_LIMIT, Len(q)))

processEmailQueue(q, h, tm, w) ==
    IF q = <<>>
    THEN stopDraining(q, h, tm, w)
    ELSE takeBatch(q, h, tm, w, Min(REQUEST_LIMIT, Len(q)))

(***************************************************************************)
(* Actions of the dispatch queue                                           *)
(***************************************************************************)
\* A sendEmail that only pushes the task and never starts the drain.
sendEmailNoStart(addr) ==
    /\ nextTask <= taskLimit
    /\ email' = [email EXCEPT ![nextTask] = addr]
    /\ nextTask' = nextTask + 1
    /\ emailQueue' = Append(emailQueue, nextTask)
    /\ handle' = [handle EXCEPT ![nextTask] = "pending"]
    /\ UNCHANGED << variant, isProcessingQueue, result, curBatch, allPending,
                    timers, batchOf, batchNo, windowSinceBatch, windowless,
                    taskLimit >>

\* sendEmail(toEmail, ...): push the task, start draining if not running.
sendEmail(addr) ==
    /\ nextTask <= taskLimit
    /\ email' = [email EXCEPT ![nextTask] = addr]
    /\ nextTask' = nextTask + 1
    /\ LET q == Append(emailQueue, nextTask)
           h == [handle EXCEPT ![nextTask] = "pending"]
       IN  IF ~isProcessingQueue
           THEN processEmailQueue(q, h, timers, windowSinceBatch)
           ELSE /\ emailQueue' = q
                /\ handle' = h
                /\ UNCHANGED << isProcessingQueue, result, curBatch,
                                allPending, timers, batchOf, batchNo,
                                windowSinceBatch, windowless >>
    /\ UNCHANGED << variant, taskLimit >>

\* The delivery collaborator's call for task t ends: it returns an
\* acknowledgment or an application-level error, or it throws.  The
\* continuation of sendEmailDirect and the promise reactions chained on it
\* (the map callback, Promise.all, then/catch) run in the same turn.
Settle(t, outcome) ==
    /\ result[t] = "inflight"
    /\ LET res == settleResult(variant, outcome)
       IN  /\ result' = [result EXCEPT ![t] = res]
           /\ handle' = [handle EXCEPT ![t] = handleAfter(variant, res, @)]
           /\ IF t \in curBatch /\ allPending
              THEN IF ~Fulfilled(res)
                   \* Promise.all rejects on the first rejection: .catch
                   THEN allPending' = FALSE /\ timers' = timers + 1
                   ELSE IF \A u \in curBatch \ {t} : Fulfilled(result[u])
                        \* every promise of the batch fulfilled: .then
                        THEN allPending' = FALSE /\ timers' = timers + 1
                        ELSE UNCHANGED << allPending, timers >>
              ELSE UNCHANGED << allPending, timers >>
    /\ UNCHANGED << variant, emailQueue, isProcessingQueue, email, curBatch,
                    nextTask, batchOf, batchNo, windowSinceBatch, windowless,
                    taskLimit >>

Enqueue == 
    /\ \E addr \in Addresses : sendEmail(addr)
    /\ UNCHANGED rvars

DeliveryReturns ==
    /\ \E t \in TaskIds : \E o \in {"ack", "appError"} : Settle(t, o)
    /\ UNCHANGED rvars

DeliveryThrows ==
    /\ \E t \in TaskIds : Settle(t, "throw")
    /\ UNCHANGED rvars

\* The TIME_WINDOW timer fires: setTimeout's callback calls
\* processEmailQueue().
TimerFires ==
    /\ timers > 0
    /\ UNCHANGED << variant, email, nextTask, taskLimit >>
    /\ processEmailQueue(emailQueue, handle, timers - 1, TRUE)
    /\ UNCHANGED rvars

(***************************************************************************)
(* The dispatch queue alone, with its callers left abstract                *)
(***************************************************************************)
QueueIdle(limit) ==
    /\ variant \in Variants
    /\ emailQueue = <<>>
    /\ isProcessingQueue = FALSE
    /\ email = [t \in TaskIds |-> <<"?">>]
    /\ handle = [t \in TaskIds |-> "none"]
    /\ result = [t \in TaskIds |-> "none"]
    /\ curBatch = {}
    /\ allPending = FALSE
    /\ timers = 0
    /\ nextTask = 1
    /\ batchOf = [t \in TaskIds |-> 0]
    /\ batchNo = 0
    /\ windowSinceBatch = FALSE
    /\ windowless = FALSE
    /\ taskLimit = limit

\* let stats = { processed: 0, saved: 0, emailsFound: 0, emailsSent: 0 }
NoStats == [ processed |-> 0, saved |-> 0 ]

\* No adapter runs: the store is empty and the run is idle.
NoRun ==
    /\ store = {}
    /\ nextId = 1
    /\ otherSaves = 0
    /\ listing = <<>>
    /\ adapter = "none"
    /\ runNo = 0
    /\ pc = "idle"
    /\ idx = 0
    /\ existingLinks = {}
    /\ finalApplyLink = <<>>
    /\ preloaded = {}
    /\ verdict = <<>>
    /\ fetched = {}
    /\ saveResult = <<>>
    /\ contacts = {<<>>}
    /\ apiKey = FALSE
    /\ emails = <<>>
    /\ emailPos = 0
    /\ sentEmails = {}
    /\ awaited = 0
    /\ notified = {}
    /\ runLimit = 0
    /\ storeBefore = {}
    /\ savedCandidates = {}
    /\ stats = NoStats
    /\ conn = "none"

\* No paginated-table script runs.
NoPages ==
    /\ pager = "none"
    /\ page = 0
    /\ collected = 0
    /\ retries = 0
    /\ ppc = "idle"
    /\ lastRows = -1
    /\ cursor = 0
    /\ pageFailed = FALSE
    /\ savedAfterFailure = FALSE
    /\ attempts = 0
    /\ sleeps = <<>>
    /\ jobDetails = "none"

\* No candidate is looked at on its own.
NoSource == [ slice |-> "none" ]

NotBuilt == [ built |-> FALSE ]

NoRecord ==
    /\ src = NoSource
    /\ builder = "none"
    /\ newJob = NotBuilt

InitQueue == QueueIdle(MaxTasks) /\ NoRun /\ NoPages /\ NoRecord

InitFairQueue == QueueIdle(MaxFairTasks) /\ NoRun /\ NoPages /\ NoRecord

NextQueue == Enqueue \/ DeliveryReturns \/ DeliveryThrows \/ TimerFires

SpecQueue == InitQueue /\ [][NextQueue]_vars

\* The collaborator's calls end and timers fire; callers need not enqueue.
FairSpecQueue ==
    /\ InitFairQueue
    /\ [][NextQueue]_vars
    /\ WF_vars(DeliveryReturns \/ DeliveryThrows)
    /\ WF_vars(TimerFires)

(***************************************************************************)
(* Properties of the dispatch queue                                        *)
(***************************************************************************)
InFlight == { t \in TaskIds : result[t] = "inflight" }

Enqueued(t) == handle[t] # "none"

\* C2: no more than REQUEST_LIMIT = 2 delivery calls to the email
\* collaborator are in flight at any instant.
C2_AtMostTwoInFlight == Cardinality(InFlight) <= REQUEST_LIMIT

\* C3: every handle sendEmail returned is eventually settled by the drain
\* (no enqueued task's handle stays pending forever), the collaborator's
\* calls ending and the timers firing.
C3_HandleEventuallyResolved ==
    \A t \in TaskIds : (handle[t] = "pending") ~> (handle[t] # "pending")

\* C4: a batch has at most 2 tasks; when a batch is dispatched every
\* delivery call of the earlier batches has settled (so every call in
\* flight belongs to the batch taken last); and a window timer has fired
\* between any two batches.
C4_BatchAfterSettleAndWindow ==
    /\ Cardinality(curBatch) <= REQUEST_LIMIT
    /\ InFlight \subseteq curBatch
    /\ ~windowless

\* C5: a task whose delivery call failed (application-level error, or a
\* thrown transport exception) has its handle resolved with an error result,
\* not rejected, and a task of the same batch whose call was acknowledged
\* has its handle resolved with its own result.
C5_FailureResolvesWithError ==
    \A t \in TaskIds :
        /\ result[t] \in {"appError", "caught", "thrown"} => handle[t] = "error"
        /\ result[t] = "ack" => handle[t] = "ack"

C7_EveryTaskDispatched ==
    /\ [](~isProcessingQueue => emailQueue = <<>>)
    /\ [](emailQueue # <<>> =>
            timers > 0 \/ (allPending /\ InFlight \cap curBatch # {}))
    /\ \A t \in TaskIds : Enqueued(t) ~> (batchOf[t] > 0)

\* How many times task t stands in the queue.
TimesQueued(t) ==
    Cardinality({ i \in 1..Len(emailQueue) : emailQueue[i] = t })

\* C30: the dispatch queue neither loses nor duplicates tasks and is
\* first-in first-out.  A task that sendEmail has enqueued stands in the
\* queue exactly once until its batch is taken and never afterwards; it is
\* handed to sendEmailDirect when its batch is taken and never again; the
\* queue holds its tasks in the order of their enqueueing; and a task
\* enqueued earlier is never in a later batch, nor still waiting, when one
\* enqueued after it has been dispatched.
C30_FifoExactlyOnce ==
    /\ [](\A t \in TaskIds :
            /\ TimesQueued(t) =
                 (IF Enqueued(t) /\ batchOf[t] = 0 THEN 1 ELSE 0)
            /\ batchOf[t] > 0 <=> result[t] # "none"
            /\ batchOf[t] > 0 => Enqueued(t))
    /\ [](\A i, j \in 1..Len(emailQueue) :
            i < j => emailQueue[i] < emailQueue[j])
    /\ [](\A t, u \in TaskIds :
            t < u /\ batchOf[u] > 0 =>
                batchOf[t] > 0 /\ batchOf[t] <= batchOf[u])
    /\ [][\A t \in TaskIds :
            batchOf[t] > 0 => batchOf'[t] = batchOf[t]]_vars

\* Four tasks were enqueued while the first was in flight and the drain
\* has taken them all, two at a time, in the order of their enqueueing.
C30_Witness ==
    /\ nextTask > 4
    /\ emailQueue = <<>>
    /\ batchOf[1] = 1 /\ batchOf[2] = 2 /\ batchOf[3] = 2 /\ batchOf[4] = 3
    /\ \A t \in 1..4 : result[t] # "none"

\* A task enqueued after the drain had stopped, and one that waited in the
\* queue while a batch was in flight, were both dispatched.
C7_Witness ==
    /\ batchNo >= 3
    /\ \E t, u \in TaskIds :
        /\ batchOf[t] = 2 /\ batchOf[u] = 3
        /\ result[t] # "none" /\ result[u] # "none"
    /\ ~isProcessingQueue

(***************************************************************************)
(* The adapters and the store                                              *)
(***************************************************************************)
\* Strings are sequences of characters.  titleEl.attr('href') of a row
\* with no anchor is undefined; a template literal prints it "undefined".
Undefined == <<"undefined">>

\* The absence of the relativeLink field in a record.
Absent == <<"absent">>

\* The hrefs a listing row may carry: two spellings of one path, a second
\* path with a query string, and none.
Hrefs == { <<"/", "a">>, <<"/", "a", "/">>, <<"/", "b", "?", "q">>, Undefined }

\* Two links that differ, for the listings of the larger models.
NotifyHrefs == { <<"/", "a">>, <<"/", "b", "?", "q">> }

\* The apply link a detail page may give: none, or an external one.
FinalApplyLinks == { <<>>, <<"x">> }

Adapters == {"euractiv", "eurobrussels", "eurobrusselsLegacy", "epso"}

\* The earlier Euractiv importer, which reads the site's homepage.
RerunAdapters == Adapters \cup {"euractivHomepage"}

\* BASE_URL of the adapter's site, a single token (both Euractiv importers
\* have 'https://jobs.euractiv.com').
BASE_URL(a) == IF a = "euractivHomepage" THEN << "euractiv" >> ELSE << a >>

\* link.split('?')[0]
BeforeQuery(link) ==
    IF Includes(link, "?")
    THEN LET q == CHOOSE i \in 1..Len(link) :
                    /\ link[i] = "?"
                    /\ \A j \in 1..(i - 1) : link[j] # "?"
         IN  SubSeq(link, 1, q - 1)
    ELSE link

\* .replace(/\/$/, '')
StripTrailingSlash(link) ==
    IF Len(link) > 0 /\ link[Len(link)] = "/"
    THEN SubSeq(link, 1, Len(link) - 1)
    ELSE link

\* normalizeLink: link?.split('?')[0]?.replace(/\/$/, '') || ''
\* (the Euractiv version has no ?. and is never called with undefined).
normalizeLink(link) ==
    IF link = Undefined THEN <<>> ELSE StripTrailingSlash(BeforeQuery(link))

\* scrapeCompanyJobs(path, maxJobs) as scrapeAllPremiumCompanies calls it.
maxJobs(a) == IF a = "eurobrusselsLegacy" THEN 1 ELSE 3

\* Eurobrussels lists its jobs per company page, JobsPerCompany job boxes
\* on each: the first rows are those of the first company, and so on.

CompanyOf(i) == (i + JobsPerCompany - 1) \div JobsPerCompany

PosInCompany(i) == i - (CompanyOf(i) - 1) * JobsPerCompany

IsCompanyAdapter(a) == a \in {"eurobrussels", "eurobrusselsLegacy"}

\* The rows the adapter's loop visits:
\*   for (let i = 0; i < Math.min(maxJobs, jobBoxes.length); i++)
\* and, for the flat listings, every row (the caps of 200 and 100 rows are
\* beyond the listings considered).
RowsOf(a) ==
    IF IsCompanyAdapter(a)
    THEN { i \in 1..Len(listing) : PosInCompany(i) <= maxJobs(a) }
    ELSE 1..Len(listing)

\* The first row of `rows` after row i, or one past the listing.
RowAfter(rows, i) ==
    IF \E j \in rows : j > i
    THEN CHOOSE j \in rows : j > i /\ \A k \in rows : k > i => j <= k
    ELSE Len(listing) + 1

\* The adapter's next row after row i: continue, or the end of the for body.
NextRow(a, i) == RowAfter(RowsOf(a), i)

\* A save failure that ends the run.
afterSaveFailureEndsRun(a, i) == Len(listing) + 1

\* The row the run goes on with when the save of row i has thrown.  The
\* legacy Eurobrussels adapter has no try around save: the exception leaves
\* scrapeCompanyJobs through its outer catch, and the run goes on with the
\* next company.  Every other adapter catches it inside the loop.
afterSaveFailure(a, i) ==
    IF a = "eurobrusselsLegacy"
    THEN RowAfter({ j \in RowsOf(a) : CompanyOf(j) > CompanyOf(i) }, i)
    ELSE NextRow(a, i)

\* The adapters whose duplicate check precedes the detail fetch; the legacy
\* Eurobrussels adapter fetches the detail page first, then looks up the
\* apply link.
ChecksBeforeFetch(a) == a # "eurobrusselsLegacy"

\* The adapters that fetch a detail page for a candidate; the RSS importer
\* builds its record from the feed item alone.
FetchesDetail(a) == a # "rss"

\* relativeLink of the record the adapter builds for a row (jobsin.js
\* writes meta.full_slug || '').
RelativeLinkOf(a, href) ==
    CASE a \in {"eurobrusselsLegacy", "rss", "euractivHomepage"} -> Absent
      [] a = "jobsin" -> IF href = Undefined THEN <<>> ELSE href
      [] OTHER        -> normalizeLink(href)

\* `${BASE_URL}${relativeLink}` of the earlier Euractiv importer.
InternalLinkOf(a, href) == BASE_URL(a) \o href

\* Its finalApplyLink: isInternalLink ? '' : applyLink, where
\* isInternalLink is applyLink.startsWith(BASE_URL).
ExternalOnly(a, link) ==
    IF Len(link) >= 1 /\ SubSeq(link, 1, 1) = BASE_URL(a) THEN <<>> ELSE link

\* applyLink of the record the adapter builds for a row, fin being the
\* apply link its detail page gave.
ApplyLinkOf(a, href, fin) ==
    CASE a = "euractiv"           -> BASE_URL(a) \o normalizeLink(href)
      [] a = "euractivHomepage"   ->
            ExternalOnly(a, InternalLinkOf(a, href))
      [] a = "rss"                -> href
      [] a = "eurobrusselsLegacy" ->
            IF fin # <<>> THEN fin ELSE BASE_URL(a) \o href
      [] OTHER                    ->
            IF fin # <<>> THEN fin ELSE BASE_URL(a) \o normalizeLink(href)

SourceOf(a) ==
    CASE a = "euractiv" -> "euractiv"
      [] a = "euractivHomepage" -> "losers"
      [] a = "epso"     -> "eu-institution"
      [] a = "rss"      -> "eu-rss"
      [] OTHER          -> "eurobrussels"

\* A duplicate check that looks up relativeLink in every adapter.
FindOneByRelativeLink(a, href, fin) ==
    \E r \in store : r.relativeLink = normalizeLink(href)

\* JobModel.findOne({ relativeLink }) / findOne({ applyLink })
FindOne(a, href, fin) ==
    CASE a \in {"eurobrusselsLegacy", "rss"} ->
            \E r \in store : r.applyLink = ApplyLinkOf(a, href, fin)
      [] a = "euractivHomepage" ->
            \E r \in store : r.applyLink = InternalLinkOf(a, href)
      [] OTHER ->
            \E r \in store : r.relativeLink = normalizeLink(href)

\* A store with no unique index on relativeLink.
saveOutcomesNoIndex(st, rec) == {"ok", "error"}

\* What save(rec) may do on the store st.  The sparse unique index on
\* relativeLink refuses (E11000) a record whose relativeLink is present and
\* already stored; any save may fail otherwise (validation, connection).
saveOutcomes(st, rec) ==
    IF rec.relativeLink # Absent
       /\ \E r \in st : r.relativeLink = rec.relativeLink
    THEN {"dup", "error"}
    ELSE {"ok", "error"}

\* createdAt and expiresOn, in days.
Days == 0..MaxDay

None == -1

\* 30 * 24 * 60 * 60 * 1000 ms
THIRTY_DAYS == 30

\* createdAt and expiresOn of the record each loop body builds, from the
\* source's publication day and deadline (None: it gives none) and
\* Date.now().
datesOf(a, published, deadline, now) ==
    CASE a \in {"epso", "jobsin"} ->
            [ createdAt |-> IF a = "jobsin" /\ published = None
                            THEN now ELSE published,
              expiresOn |-> IF deadline # None THEN deadline
                            ELSE now + THIRTY_DAYS ]
      [] a = "rss" ->
            [ createdAt |-> published,
              expiresOn |-> published + THIRTY_DAYS ]
      [] OTHER ->
            [ createdAt |-> now, expiresOn |-> now + THIRTY_DAYS ]

\* The day the source says the listing behind a link was published.
PublishedOf(href) == IF href = <<"/", "a">> THEN 0 ELSE 1

\* The day of Date.now() in a run: the runs happen on successive days.
DayOfRun(k) == k

NewRecord(a, href, fin) ==
    [ id           |-> nextId,
      relativeLink |-> RelativeLinkOf(a, href),
      applyLink    |-> ApplyLinkOf(a, href, fin),
      source       |-> SourceOf(a),
      createdAt    |-> datesOf(a, PublishedOf(href), None,
                               DayOfRun(runNo)).createdAt ]

Rows == 1..Len(listing)

\* History of a run that starts.
FreshHistory ==
    /\ verdict' = [i \in Rows |-> "none"]
    /\ fetched' = {}
    /\ saveResult' = [i \in Rows |-> "none"]
    /\ notified' = {}

\* The run moves on to row j.
GoToRow(j) ==
    /\ idx' = j
    /\ pc' = IF j > Len(listing) THEN "done" ELSE "row"
    /\ finalApplyLink' = <<>>
    /\ emails' = <<>>
    /\ emailPos' = 0
    /\ sentEmails' = {}
    /\ awaited' = 0

\* What may come of dbConnect in a fresh process: mongoose.connect
\* resolves, MONGODB_URI is not set, or mongoose.connect rejects.
ConnectOutcomes == {"connected", "uriMissing", "refused"}

\* A dbConnect whose catch logs the failure and returns.
dbConnectLogsOnly(o) == IF o = "uriMissing" THEN "throws" ELSE "returns"

\* dbConnect: it returns once connected, throws when the URI is missing,
\* and ends the process with process.exit(1) when mongoose.connect rejects.
dbConnect(o) ==
    CASE o = "connected"  -> "returns"
      [] o = "uriMissing" -> "throws"
      [] OTHER            -> "exits"

\* The adapter script is started in a fresh process and dbConnect ends
\* with o.  Its main function begins with `await dbConnect()`: only when
\* that returns do (Euractiv) syncIndexes() and the preload of every stored
\* relativeLink into existingLinks follow, then the fetch of the listing.
\* A throw rejects the main function's promise, which nothing handles.
BeginRun(o) ==
    /\ pc \in {"idle", "done", "exited"}
    /\ runNo < runLimit
    /\ runNo' = runNo + 1
    /\ conn' = o
    /\ FreshHistory
    /\ storeBefore' = store
    /\ stats' = NoStats
    /\ IF dbConnect(o) = "returns"
       THEN /\ existingLinks' = IF adapter = "euractiv"
                                THEN { r.relativeLink : r \in store }
                                ELSE {}
            /\ GoToRow(RowAfter(RowsOf(adapter), 0))
       ELSE /\ existingLinks' = {}
            /\ pc' = "exited"
            /\ idx' = 0
            /\ finalApplyLink' = <<>>
            /\ emails' = <<>>
            /\ emailPos' = 0
            /\ sentEmails' = {}
            /\ awaited' = 0
    /\ preloaded' = existingLinks'
    /\ UNCHANGED << store, nextId, otherSaves, listing, adapter, contacts,
                    apiKey, runLimit, savedCandidates >>

\* The adapter starts and connects to the store.
StartRun ==
    /\ BeginRun("connected")
    /\ UNCHANGED qvars
    /\ UNCHANGED xvars

\* The adapter starts and cannot connect to the store.
ConnectFails ==
    /\ \E o \in ConnectOutcomes \ {"connected"} : BeginRun(o)
    /\ UNCHANGED qvars
    /\ UNCHANGED xvars

\* The adapters that keep run statistics and print them at the end.
KeepsStats(a) == a \in {"euractiv", "eurobrussels"}

\* stats after stats.processed++ / companyStats.processed++ at the head of
\* the loop body.
statsAfterRow(a, st) ==
    IF KeepsStats(a) THEN [st EXCEPT !.processed = @ + 1] ELSE st

\* stats after a save that succeeded: companyStats.saved++ follows
\* await job.save() in Eurobrussels (and is summed into totalStats);
\* Euractiv has no statement that changes stats.saved.
statsAfterSave(a, st) ==
    IF a = "eurobrussels" THEN [st EXCEPT !.saved = @ + 1] ELSE st

\* The head of the loop body for row idx, up to its first await.
\* Euractiv: if (!rawLink) continue; then the in-memory check.
\* The others go to their first await: findOne, or (legacy) the fetch.
ExamineRow ==
    /\ pc = "row"
    /\ LET href == listing[idx]
       IN  IF adapter = "euractiv"
           THEN IF href = Undefined
                THEN /\ verdict' = [verdict EXCEPT ![idx] = "noLink"]
                     /\ GoToRow(NextRow(adapter, idx))
                ELSE IF normalizeLink(href) \in existingLinks
                     THEN /\ verdict' = [verdict EXCEPT ![idx] = "duplicate"]
                          /\ GoToRow(NextRow(adapter, idx))
                     ELSE /\ verdict' = [verdict EXCEPT ![idx] = "absent"]
                          /\ pc' = "fetch"
                          /\ UNCHANGED << idx, finalApplyLink, notifyLocals >>
           ELSE /\ pc' = IF ChecksBeforeFetch(adapter) THEN "check" ELSE "fetch"
                /\ UNCHANGED << verdict, idx, finalApplyLink, notifyLocals >>
    /\ stats' = statsAfterRow(adapter, stats)
    /\ UNCHANGED << store, nextId, otherSaves, listing, adapter, runNo,
                    existingLinks, preloaded, fetched, saveResult, contacts,
                    apiKey, notified,
                    runLimit, storeBefore, savedCandidates, conn >>
    /\ UNCHANGED qvars
    /\ UNCHANGED xvars

\* await JobModel.findOne(...) returns: skip the row, or go on.
CheckDuplicate ==
    /\ pc = "check"
    /\ IF FindOne(adapter, listing[idx], finalApplyLink)
       THEN /\ verdict' = [verdict EXCEPT ![idx] = "duplicate"]
            /\ GoToRow(NextRow(adapter, idx))
       ELSE /\ verdict' = [verdict EXCEPT ![idx] = "absent"]
            /\ pc' = IF ChecksBeforeFetch(adapter) /\ FetchesDetail(adapter)
                      THEN "fetch" ELSE "save"
            /\ UNCHANGED << idx, finalApplyLink, notifyLocals >>
    /\ UNCHANGED << store, nextId, otherSaves, listing, adapter, runNo,
                    existingLinks, preloaded, fetched, saveResult, contacts,
                    apiKey, notified,
                    runLimit, storeBefore, savedCandidates, stats, conn >>
    /\ UNCHANGED qvars
    /\ UNCHANGED xvars

\* The adapters that hand the addresses found on a saved row's detail page
\* to sendEmail.
SendsEmails(a) == a \in {"euractiv", "eurobrussels"}

RECURSIVE Uniq(_)
\* [...new Set(emails)]: the first occurrence of each element, in order
Uniq(list) ==
    IF list = <<>> THEN <<>>
    ELSE LET init == Uniq(SubSeq(list, 1, Len(list) - 1))
             last == list[Len(list)]
         IN  IF \E i \in 1..Len(init) : init[i] = last
             THEN init ELSE Append(init, last)

\* await fetchJobDescription(...) / scrapeJobDetails(...) returns (they
\* return a placeholder when the fetch fails; they do not throw).  The
\* addresses the page shows come back as [...new Set(emails)].
FetchDetail ==
    /\ pc = "fetch"
    /\ fetched' = fetched \cup {idx}
    /\ finalApplyLink' \in (IF adapter \in {"euractiv", "euractivHomepage"}
                            THEN {<<>>}
                            ELSE FinalApplyLinks)
    /\ emails' \in (IF SendsEmails(adapter)
                    THEN { Uniq(c) : c \in contacts } ELSE {<<>>})
    /\ pc' = IF ChecksBeforeFetch(adapter) THEN "save" ELSE "check"
    /\ UNCHANGED << store, nextId, otherSaves, listing, adapter, runNo, idx,
                    existingLinks, preloaded, verdict, saveResult, contacts,
                    apiKey, emailPos, sentEmails, awaited, notified,
                    runLimit, storeBefore, savedCandidates, stats, conn >>
    /\ UNCHANGED qvars
    /\ UNCHANGED xvars

\* existingLinks after a save that succeeded, without the add.
linksAfterSaveNoAdd(a, links, key) == links

\* existingLinks after a save that succeeded: existingLinks.add(relativeLink)
linksAfterSave(a, links, key) ==
    IF a = "euractiv" THEN links \cup {key} ELSE links

\* A loop body that notifies the contacts whatever save did.
notifiesAfterAnySave(a, o, key, ems) ==
    SendsEmails(a) /\ key /\ ems # <<>>

\* Whether the loop body goes on to notify the contacts once save has
\* ended with o: the sending is inside the try, after await save(), under
\*   if (process.env.RESEND_API_KEY && emails.length > 0)
notifiesAfter(a, o, key, ems) ==
    o = "ok" /\ SendsEmails(a) /\ key /\ ems # <<>>

\* await newJob.save() returns or throws.
SaveRecord ==
    /\ pc = "save"
    /\ LET rec == NewRecord(adapter, listing[idx], finalApplyLink)
       IN  \E o \in saveOutcomes(store, rec) :
             /\ saveResult' = [saveResult EXCEPT ![idx] = o]
             /\ IF o = "ok"
                THEN /\ store' = store \cup {rec}
                     /\ nextId' = nextId + 1
                     /\ existingLinks' =
                          linksAfterSave(adapter, existingLinks,
                                         rec.relativeLink)
                     /\ stats' = statsAfterSave(adapter, stats)
                     /\ savedCandidates' =
                          savedCandidates
                            \cup {<< runNo, listing[idx], finalApplyLink >>}
                ELSE UNCHANGED << store, nextId, existingLinks, stats,
                                  savedCandidates >>
             /\ IF notifiesAfter(adapter, o, apiKey, emails)
                THEN /\ pc' = "notify"
                     /\ emailPos' = 1
                     /\ sentEmails' = {}
                     /\ UNCHANGED << idx, finalApplyLink, emails, awaited >>
                ELSE GoToRow(IF o = "ok" THEN NextRow(adapter, idx)
                             ELSE afterSaveFailure(adapter, idx))
    /\ UNCHANGED << otherSaves, listing, adapter, runNo, preloaded, verdict,
                    fetched, contacts, apiKey, notified,
                    runLimit, storeBefore, conn >>
    /\ UNCHANGED qvars
    /\ UNCHANGED xvars

\* Another instance of the running script (a scheduled run and a manual
\* one may overlap) saves its record for one of the listing's rows.
OtherInstanceSaves ==
    /\ otherSaves < MaxOtherSaves
    /\ pc \in {"row", "check", "fetch", "save"}
    /\ \E i \in RowsOf(adapter) :
         LET rec == NewRecord(adapter, listing[i], <<>>)
         IN  /\ listing[i] # Undefined
             /\ "ok" \in saveOutcomes(store, rec)
             /\ store' = store \cup {rec}
             /\ nextId' = nextId + 1
    /\ otherSaves' = otherSaves + 1
    /\ UNCHANGED << listing, adapter, runNo, pc, idx, existingLinks,
                    finalApplyLink, preloaded, verdict, fetched, saveResult,
                    contacts, apiKey, notifyLocals, notified,
                    runLimit, storeBefore, savedCandidates, stats, conn >>
    /\ UNCHANGED qvars
    /\ UNCHANGED xvars

\* The store is empty, the source lists MaxRows rows, and one of the
\* adapter scripts `scripts` is about to be run, MaxRuns times.
BeforeRuns(scripts) ==
    /\ QueueIdle(0)
    /\ variant = "resend"
    /\ NoPages
    /\ NoRecord
    /\ store = {}
    /\ nextId = 1
    /\ otherSaves = 0
    /\ listing \in [1..MaxRows -> Hrefs]
    /\ adapter \in scripts
    /\ runNo = 0
    /\ pc = "idle"
    /\ idx = 0
    /\ existingLinks = {}
    /\ finalApplyLink = <<>>
    /\ preloaded = {}
    /\ verdict = [i \in 1..MaxRows |-> "none"]
    /\ fetched = {}
    /\ saveResult = [i \in 1..MaxRows |-> "none"]
    /\ contacts = {<<>>}
    /\ apiKey = FALSE
    /\ emails = <<>>
    /\ emailPos = 0
    /\ sentEmails = {}
    /\ awaited = 0
    /\ notified = {}
    /\ runLimit = MaxRuns
    /\ storeBefore = {}
    /\ savedCandidates = {}
    /\ stats = NoStats
    /\ conn = "none"

InitRun == BeforeRuns(Adapters)

NextRun ==
    \/ StartRun
    \/ ConnectFails
    \/ ExamineRow
    \/ CheckDuplicate
    \/ FetchDetail
    \/ SaveRecord
    \/ OtherInstanceSaves

SpecRun == InitRun /\ [][NextRun]_vars

(***************************************************************************)
(* Runs repeated on a source that does not change                          *)
(***************************************************************************)
\* Either Euractiv importer, or one of the other adapters, is about to be
\* run MaxRuns times, and no other instance of it is at work.
InitRerun == BeforeRuns(RerunAdapters)

NextRerun ==
    \/ StartRun
    \/ ExamineRow
    \/ CheckDuplicate
    \/ FetchDetail
    \/ SaveRecord

SpecRerun == InitRerun /\ [][NextRerun]_vars

\* C29: a candidate that an earlier run has saved (the row's link and the
\* apply link its detail page gives being what they were) is skipped by
\* every later run: it does not come to save again.
C29_RerunSavesNothing ==
    pc = "save"
        => \A k \in 1..(runNo - 1) :
              << k, listing[idx], finalApplyLink >> \notin savedCandidates

(***************************************************************************)
(* The maintenance scripts: sourceDelete.js, delete.js                     *)
(***************************************************************************)
\* The day of 2025-04-18, whose records delete.js removes.
APRIL_18 == 1

\* The filters handed to JobModel.deleteMany: { source: 'euractiv' }
\* (sourceDelete.js), { source: 'eu-rss' } (its other version), and
\* { createdAt: { $gte: start, $lt: end } } (delete.js).
SourceFilters ==
    { [ kind |-> "source", tag |-> t ] : t \in {"euractiv", "eu-rss"} }

WindowFilter == [ kind |-> "window", start |-> APRIL_18, end |-> APRIL_18 + 1 ]

DeleteFilters == SourceFilters \cup { WindowFilter }

\* Whether record r matches the filter f.
Matches(f, r) ==
    IF f.kind = "source"
    THEN r.source = f.tag
    ELSE r.createdAt >= f.start /\ r.createdAt < f.end

\* A deleteMany that takes no notice of its filter.
deleteManyAll(st, f) == {}

\* The collection after JobModel.deleteMany(f)
deleteMany(st, f) == { r \in st : ~Matches(f, r) }

\* deleteJobsWithSourceLosers: dbConnect, deleteMany, close.  (A deleteMany
\* that throws is caught and logged, the collection being as it was.)
DeleteBySource ==
    /\ \E f \in SourceFilters : store' = deleteMany(store, f)
    /\ UNCHANGED runState
    /\ UNCHANGED qvars
    /\ UNCHANGED xvars

\* deleteJobsCreatedOnApril18: dbConnect, deleteMany, close.
DeleteByWindow ==
    /\ store' = deleteMany(store, WindowFilter)
    /\ UNCHANGED runState
    /\ UNCHANGED qvars
    /\ UNCHANGED xvars

\* The listing shows the links of NotifyHrefs, and no other instance of
\* the adapter is at work.
InitMaintenance ==
    /\ InitRun
    /\ \A i \in Rows : listing[i] \in NotifyHrefs

NextMaintenance ==
    \/ StartRun
    \/ ExamineRow
    \/ CheckDuplicate
    \/ FetchDetail
    \/ SaveRecord
    \/ DeleteBySource
    \/ DeleteByWindow

\* The adapter runs, with the maintenance scripts run at any moment.
SpecMaintenance == InitMaintenance /\ [][NextMaintenance]_vars

\* C28: a step of an adapter run only adds records: every record stored
\* before the step is stored, unchanged, after it; records leave the store
\* only in a step of a maintenance script, which changes nothing else and
\* removes exactly the records matching its filter (a source tag, or the
\* createdAt window).
C28_OnlyMaintenanceDeletes ==
    [][ \/ store \subseteq store'
        \/ /\ UNCHANGED runState
           /\ \E f \in DeleteFilters :
                 store' = { r \in store : ~Matches(f, r) } ]_vars

\* Two runs have ended, the second adding a record to what it found; the
\* store had lost a record to a maintenance script before, while a record
\* its filter did not match was kept.
C28_Witness ==
    /\ pc = "done"
    /\ runNo = 2
    /\ storeBefore # {}
    /\ storeBefore \subseteq store
    /\ storeBefore # store
    /\ nextId - 1 > Cardinality(store)

(***************************************************************************)
(* Properties of the adapter runs                                          *)
(***************************************************************************)
\* The run has started on row i (its first step is the duplicate check, or,
\* in the legacy Eurobrussels adapter, the detail fetch).
Examined(i) == verdict[i] # "none" \/ i \in fetched

SameKey(i, j) == normalizeLink(listing[i]) = normalizeLink(listing[j])

\* C1: the store never holds two records with the same relativeLink,
\* whatever the order of the candidates, within a run, across runs, and
\* with another instance saving meanwhile.
C1_UniqueRelativeLink ==
    \A r1, r2 \in store :
        r1.relativeLink # Absent /\ r1.relativeLink = r2.relativeLink
            => r1 = r2

\* Two rows spell the same link differently; the save of one was refused by
\* the unique index (its key had been stored since its check), the other
\* was then skipped as a duplicate.
C1_Witness ==
    \E i, j \in Rows :
        /\ listing[i] # listing[j] /\ SameKey(i, j)
        /\ saveResult[i] = "dup" /\ verdict[j] = "duplicate"
        /\ \E r \in store : r.relativeLink = normalizeLink(listing[i])

\* C8: in every adapter the duplicate check of a candidate precedes its
\* detail fetch: a row whose detail page was fetched, or whose record was
\* handed to save, had its key found absent before, and no detail page is
\* fetched for a row found to be a duplicate.
C8_CheckBeforeFetch ==
    \A i \in Rows :
        /\ i \in fetched => verdict[i] = "absent"
        /\ saveResult[i] # "none" => verdict[i] = "absent"
        /\ verdict[i] = "duplicate" => i \notin fetched

\* C9: a save that fails, with E11000 or otherwise, only skips its
\* candidate: a run that has ended has examined every row of its loop.
C9_SaveFailureContinues ==
    pc = "done" => \A i \in RowsOf(adapter) : Examined(i)

\* A run ended in which the index refused one row and a later row was saved.
C9_Witness ==
    /\ pc = "done"
    /\ \E i, j \in RowsOf(adapter) :
         i < j /\ saveResult[i] = "dup" /\ saveResult[j] = "ok"

\* C10: in a Euractiv run existingLinks is what was preloaded plus the keys
\* of the rows saved so far, at every moment (a failed save adds nothing),
\* and a row examined after a saved row with the same key is skipped by the
\* in-memory check.
C10_SetTracksSaves ==
    adapter = "euractiv" /\ pc # "idle" =>
        /\ existingLinks =
             preloaded \cup { normalizeLink(listing[i]) :
                                i \in { k \in Rows : saveResult[k] = "ok" } }
        /\ \A i, j \in Rows :
             i < j /\ saveResult[i] = "ok" /\ SameKey(i, j) /\ Examined(j)
                 => verdict[j] = "duplicate"

\* A Euractiv run saved a row whose key was not preloaded and skipped a
\* later row that spells the same link differently.
C10_Witness ==
    /\ adapter = "euractiv"
    /\ \E i, j \in Rows :
         /\ i < j /\ listing[i] # listing[j] /\ SameKey(i, j)
         /\ normalizeLink(listing[i]) \notin preloaded
         /\ saveResult[i] = "ok" /\ verdict[j] = "duplicate"

\* C24: when the store connection cannot be established at startup (the
\* URI is missing, or connecting fails) the run has ended at once: no row
\* is examined, no detail page fetched, no save attempted, and the store is
\* as it was.
C24_ConnectFailureEndsRun ==
    conn \in ConnectOutcomes \ {"connected"} =>
        /\ pc = "exited"
        /\ fetched = {}
        /\ \A i \in Rows : verdict[i] = "none" /\ saveResult[i] = "none"
        /\ store = storeBefore
        /\ stats = NoStats

\* A run saved a record; the next one found no MONGODB_URI and ended
\* with the store as that run left it.
C24_Witness ==
    /\ conn = "uriMissing"
    /\ pc = "exited"
    /\ runNo = 2
    /\ store # {}
    /\ store = storeBefore

\* C23: a row with no link is skipped: no record is saved for it, and the
\* run goes on to the rows after it.
C23_LinklessSkipped ==
    \A i \in Rows :
        listing[i] = Undefined =>
            /\ saveResult[i] # "ok"
            /\ pc = "done" => \A j \in RowsOf(adapter) : Examined(j)

(***************************************************************************)
(* Notification of the contacts of a saved row                             *)
(***************************************************************************)
Contact1 == <<"a", "@", "b">>

Contact2 == <<"c", "@", "d">>

\* What a detail page may show: no address, the same one twice, two.
ContactLists ==
    { <<>>, <<Contact1, Contact1>>, <<Contact1, Contact2>> }

\* The head of `for (const email of emails)`: the loop ends, or
\*   if (sentEmails.has(email)) continue;
NextAddress ==
    /\ pc = "notify"
    /\ IF emailPos > Len(emails)
       THEN GoToRow(NextRow(adapter, idx))
       ELSE /\ emails[emailPos] \in sentEmails
            /\ emailPos' = emailPos + 1
            /\ UNCHANGED << pc, idx, finalApplyLink, emails, sentEmails,
                            awaited >>
    /\ UNCHANGED << store, nextId, otherSaves, listing, adapter, runNo,
                    existingLinks, preloaded, verdict, fetched, saveResult,
                    contacts, apiKey, notified,
                    runLimit, storeBefore, savedCandidates, stats, conn >>
    /\ UNCHANGED qvars
    /\ UNCHANGED xvars

\* const result = await sendEmail(email, ...): the call, up to the await.
SendNotification ==
    /\ pc = "notify"
    /\ emailPos <= Len(emails)
    /\ emails[emailPos] \notin sentEmails
    /\ sendEmail(emails[emailPos])
    /\ awaited' = nextTask
    /\ notified' = notified \cup {idx}
    /\ pc' = "awaitSend"
    /\ UNCHANGED << store, nextId, otherSaves, listing, adapter, runNo, idx,
                    existingLinks, finalApplyLink, preloaded, verdict,
                    fetched, saveResult, contacts, apiKey, emails, emailPos,
                    sentEmails,
                    runLimit, storeBefore, savedCandidates, stats, conn >>
    /\ UNCHANGED xvars

\* Where the run goes on when the awaited promise was rejected: Euractiv's
\* try encloses the whole for loop, sendSalesEmails' try is inside it.
afterRejectedSend(a) == IF a = "euractiv" THEN "nextRow" ELSE "nextAddress"

\* The awaited sendEmail promise is settled: the rest of the for body
\*   if (!result.error) { sentEmails.add(email); await <1 s delay> }
\* or the catch.
SendReturns ==
    /\ pc = "awaitSend"
    /\ handle[awaited] \in {"ack", "error", "rejected"}
    /\ IF handle[awaited] = "rejected"
          /\ afterRejectedSend(adapter) = "nextRow"
       THEN GoToRow(NextRow(adapter, idx))
       ELSE /\ pc' = "notify"
            /\ emailPos' = emailPos + 1
            /\ sentEmails' = IF handle[awaited] = "ack"
                             THEN sentEmails \cup {emails[emailPos]}
                             ELSE sentEmails
            /\ awaited' = 0
            /\ UNCHANGED << idx, finalApplyLink, emails >>
    /\ UNCHANGED << store, nextId, otherSaves, listing, adapter, runNo,
                    existingLinks, preloaded, verdict, fetched, saveResult,
                    contacts, apiKey, notified,
                    runLimit, storeBefore, savedCandidates, stats, conn >>
    /\ UNCHANGED qvars
    /\ UNCHANGED xvars

\* One of the adapters that notify contacts is about to be run on an empty
\* store, with either emailUtils.js loaded.
InitNotify ==
    /\ QueueIdle(MaxTasks)
    /\ NoPages
    /\ NoRecord
    /\ store = {}
    /\ nextId = 1
    /\ otherSaves = 0
    /\ listing \in [1..MaxRows -> NotifyHrefs]
    /\ adapter \in { a \in Adapters : SendsEmails(a) }
    /\ runNo = 0
    /\ pc = "idle"
    /\ idx = 0
    /\ existingLinks = {}
    /\ finalApplyLink = <<>>
    /\ preloaded = {}
    /\ verdict = [i \in 1..MaxRows |-> "none"]
    /\ fetched = {}
    /\ saveResult = [i \in 1..MaxRows |-> "none"]
    /\ contacts = ContactLists
    /\ apiKey \in BOOLEAN
    /\ emails = <<>>
    /\ emailPos = 0
    /\ sentEmails = {}
    /\ awaited = 0
    /\ notified = {}
    /\ runLimit = MaxNotifyRuns
    /\ storeBefore = {}
    /\ savedCandidates = {}
    /\ stats = NoStats
    /\ conn = "none"

RunStep ==
    \/ ExamineRow
    \/ CheckDuplicate
    \/ FetchDetail
    \/ SaveRecord
    \/ NextAddress
    \/ SendNotification
    \/ SendReturns

NextNotify ==
    \/ StartRun
    \/ RunStep
    \/ DeliveryReturns
    \/ DeliveryThrows
    \/ TimerFires

SpecNotify == InitNotify /\ [][NextNotify]_vars

\* Every step of the run, every delivery call and every window timer
\* eventually happens; nothing obliges a run to be started.
FairSpecNotify ==
    /\ SpecNotify
    /\ WF_vars(RunStep)
    /\ WF_vars(DeliveryReturns \/ DeliveryThrows)
    /\ WF_vars(TimerFires)

\* C11: sendEmail is called for a row only after its record was saved: a
\* row skipped as a duplicate, or whose save failed, is never notified.
C11_NotifyOnlySaved ==
    \A i \in notified : saveResult[i] = "ok"

\* A row was saved and its contact handed to sendEmail, while another row
\* whose detail page was fetched failed to save and was left alone.
C11_Witness ==
    /\ notified # {}
    /\ \E j \in fetched : saveResult[j] = "error" /\ j \notin notified
    /\ pc = "done"

\* C21: within a run no address is handed to sendEmail twice, be it found
\* twice on one detail page, sent again after a send that failed, or found
\* again on the detail page of a later row.
C21_NoAddressTwice ==
    \A t, u \in TaskIds :
        Enqueued(t) /\ Enqueued(u) /\ email[t] = email[u] => t = u

\* C22: at the end of a run the summary's counts are what happened: the
\* saved count is the number of saves that succeeded, and every row the
\* loop examined, the skipped duplicates included, is counted.
C22_SummaryIsTrue ==
    pc = "done" /\ KeepsStats(adapter) =>
        /\ stats.saved = Cardinality({ i \in Rows : saveResult[i] = "ok" })
        /\ stats.processed = Cardinality({ i \in Rows : Examined(i) })

\* C14: a run that has started eventually ends, given that every external
\* call eventually returns or fails.
C14_RunEventuallyEnds ==
    (pc \notin {"idle", "done"}) ~> (pc = "done")

(***************************************************************************)
(* The paginated-table scripts: scrapeAllEPSOJobs                          *)
(***************************************************************************)
\* eu.js fetches a page once and has no try around the page loop; the later
\* versions retry and catch.
Pagers == {"eu", "epso"}

\* const maxJobs = 100
PAGE_CAP == 100

\* const MAX_RETRIES = 3 (eu.js calls axios.get once)
MAX_RETRIES(v) == IF v = "epso" THEN 3 ELSE 0

\* The numbers of rows a page of the table may have: none, a full page,
\* one row short of it.
PageRowCounts == {0, MaxPageRows - 1, MaxPageRows}

\* A page loop without the inner `if (allJobs.length >= maxJobs) break`.
collectedAfterNoCap(have, n) == have + n

\* allJobs.length after the rows of a page were pushed:
\*   for (const job of jobs) { if (allJobs.length >= maxJobs) break; push }
collectedAfter(have, n) == Min(PAGE_CAP, have + n)

\* Where the script goes when scrapeJobsFromPage has thrown: the catch of
\* the page loop breaks and the collected jobs are processed; eu.js has no
\* catch and the rejection leaves scrapeAllEPSOJobs.
afterPageFailure(v) == IF v = "epso" THEN "persist" ELSE "aborted"

\* const DELAY_BETWEEN_REQUESTS = 2000 (ms)
DELAY_BETWEEN_REQUESTS == 2000

\* A retry loop that gives up one failure later.
givesUpLate(v, r) == r > MAX_RETRIES(v) + 1

\* if (retries > MAX_RETRIES): the catch gives up
givesUp(v, r) == r > MAX_RETRIES(v)

\* const backoffTime = DELAY_BETWEEN_REQUESTS * Math.pow(2, retries - 1)
backoffTime(r) == DELAY_BETWEEN_REQUESTS * 2 ^ (r - 1)

\* The scripts whose persist loop calls scrapeJobDetails; eu.js builds its
\* record from the table row alone.
ScrapesDetails(v) == v = "epso"

\* let retries = 0, and the first axios.get of a URL
FirstAttempt ==
    /\ retries' = 0
    /\ attempts' = 1
    /\ sleeps' = <<>>

\* await scrapeJobsFromPage(page) returns n rows: break on an empty page,
\* else push the rows, page++, and test the while condition again.
PageArrives ==
    /\ ppc = "fetch"
    /\ \E n \in PageRowCounts :
         /\ lastRows' = n
         /\ IF n = 0
            THEN /\ ppc' = "persist"
                 /\ UNCHANGED << collected, page, retries, attempts, sleeps >>
            ELSE /\ collected' = collectedAfter(collected, n)
                 /\ page' = page + 1
                 /\ IF collected' < PAGE_CAP
                    THEN ppc' = "fetch" /\ FirstAttempt
                    ELSE /\ ppc' = "persist"
                         /\ UNCHANGED << retries, attempts, sleeps >>
    /\ UNCHANGED << pager, cursor, pageFailed, savedAfterFailure,
                    jobDetails >>
    /\ UNCHANGED << qvars, avars, bvars >>

\* The catch of a retry loop: retries++, then give up or back off.
CatchFailure(givenUp, backoff) ==
    /\ retries' = retries + 1
    /\ IF givesUp(pager, retries')
       THEN ppc' = givenUp /\ UNCHANGED sleeps
       ELSE /\ ppc' = backoff
            /\ sleeps' = Append(sleeps, backoffTime(retries'))
    /\ UNCHANGED attempts

\* axios.get throws in scrapeJobsFromPage.
PageFetchFails ==
    /\ ppc = "fetch"
    /\ CatchFailure(afterPageFailure(pager), "backoff")
    /\ pageFailed' = givesUp(pager, retries')
    /\ UNCHANGED << pager, page, collected, lastRows, cursor,
                    savedAfterFailure, jobDetails >>
    /\ UNCHANGED << qvars, avars, bvars >>

\* await sleep(backoffTime) ends: the while loop tries again.
BackoffEnds ==
    /\ ppc \in {"backoff", "detailBackoff"}
    /\ ppc' = IF ppc = "backoff" THEN "fetch" ELSE "detail"
    /\ attempts' = attempts + 1
    /\ UNCHANGED << pager, page, collected, retries, lastRows, cursor,
                    pageFailed, savedAfterFailure, sleeps, jobDetails >>
    /\ UNCHANGED << qvars, avars, bvars >>

\* The head of one turn of `for (const job of allJobs)`: findOne finds the
\* job and it is skipped, or the turn goes on to scrapeJobDetails(job.link)
\* and to save.
PersistJob ==
    /\ ppc = "persist"
    /\ cursor < collected
    /\ \E exists \in BOOLEAN :
         IF exists
         THEN /\ cursor' = cursor + 1
              /\ UNCHANGED << ppc, retries, attempts, sleeps >>
         ELSE /\ UNCHANGED cursor
              /\ IF ScrapesDetails(pager)
                 THEN ppc' = "detail" /\ FirstAttempt
                 ELSE /\ ppc' = "save"
                      /\ UNCHANGED << retries, attempts, sleeps >>
    /\ UNCHANGED jobDetails
    /\ UNCHANGED << pager, page, collected, lastRows, pageFailed,
                    savedAfterFailure >>
    /\ UNCHANGED << qvars, avars, bvars >>

\* The try of scrapeJobDetails runs to its return.
DetailArrives ==
    /\ ppc = "detail"
    /\ jobDetails' = "details"
    /\ ppc' = "save"
    /\ UNCHANGED << pager, page, collected, retries, lastRows, cursor,
                    pageFailed, savedAfterFailure, attempts, sleeps >>
    /\ UNCHANGED << qvars, avars, bvars >>

\* axios.get, or the parsing after it, throws in scrapeJobDetails: past
\* the retries it returns the 'Failed to extract description' record.
DetailFetchFails ==
    /\ ppc = "detail"
    /\ CatchFailure("save", "detailBackoff")
    /\ jobDetails' = IF givesUp(pager, retries') THEN "placeholder"
                      ELSE jobDetails
    /\ UNCHANGED << pager, page, collected, lastRows, cursor, pageFailed,
                    savedAfterFailure >>
    /\ UNCHANGED << qvars, avars, bvars >>

\* await newJob.save() returns or throws; both end the turn, and with it
\* jobDetails and the locals of the scrapeJobDetails call.
SaveJob ==
    /\ ppc = "save"
    /\ cursor' = cursor + 1
    /\ ppc' = "persist"
    /\ \E o \in {"ok", "error"} :
         savedAfterFailure' = (savedAfterFailure \/ (o = "ok" /\ pageFailed))
    /\ jobDetails' = "none"
    /\ retries' = 0
    /\ attempts' = 0
    /\ sleeps' = <<>>
    /\ UNCHANGED << pager, page, collected, lastRows, pageFailed >>
    /\ UNCHANGED << qvars, avars, bvars >>

\* mongoose.connection.close() after the loop.
CloseConnection ==
    /\ ppc = "persist"
    /\ cursor = collected
    /\ ppc' = "closed"
    /\ UNCHANGED << pager, page, collected, retries, lastRows, cursor,
                    pageFailed, savedAfterFailure, attempts, sleeps,
                    jobDetails >>
    /\ UNCHANGED << qvars, avars, bvars >>

\* One of the scripts has connected and enters its page loop.
InitPages ==
    /\ QueueIdle(0)
    /\ variant = "resend"
    /\ NoRun
    /\ NoRecord
    /\ pager \in Pagers
    /\ page = 0
    /\ collected = 0
    /\ retries = 0
    /\ ppc = "fetch"
    /\ lastRows = -1
    /\ cursor = 0
    /\ pageFailed = FALSE
    /\ savedAfterFailure = FALSE
    /\ attempts = 1
    /\ sleeps = <<>>
    /\ jobDetails = "none"

PageStep == PageArrives \/ PageFetchFails \/ BackoffEnds

DetailStep == DetailArrives \/ DetailFetchFails

NextPages ==
    \/ PageStep
    \/ PersistJob
    \/ DetailStep
    \/ SaveJob
    \/ CloseConnection

SpecPages == InitPages /\ [][NextPages]_vars

\* The awaited fetch, sleep and store calls all end.
FairSpecPages ==
    /\ SpecPages
    /\ WF_vars(PageArrives \/ PageFetchFails)
    /\ WF_vars(BackoffEnds)
    /\ WF_vars(PersistJob)
    /\ WF_vars(DetailStep)
    /\ WF_vars(SaveJob)
    /\ WF_vars(CloseConnection)

InPageLoop == ppc \in {"fetch", "backoff"}

\* C12: the collected candidates never exceed the cap of 100; the page loop
\* is left exactly when the cap is reached, a page had no rows, or a page
\* fetch failed past its retries; and it is always left.
C12_PageLoopStops ==
    /\ [](collected <= PAGE_CAP)
    /\ [](InPageLoop <=>
            (collected < PAGE_CAP /\ lastRows # 0 /\ ~pageFailed))
    /\ <>(~InPageLoop)

\* The loop was left at the cap, with the last page cut short.
C12_Witness ==
    /\ ~InPageLoop
    /\ collected = PAGE_CAP
    /\ lastRows = MaxPageRows
    /\ page * MaxPageRows > PAGE_CAP

\* C13: once a page fetch has failed past its retries, no record is saved.
C13_NothingSavedAfterFailure ==
    pageFailed => ~savedAfterFailure

InRetryLoop == ppc \in {"fetch", "backoff", "detail", "detailBackoff"}

\* C26: scrapeJobsFromPage and scrapeJobDetails (part_005, part_006) make
\* at most MAX_RETRIES + 1 = 4 attempts for a URL and none after its first
\* success; before the k-th retry they have slept 2000 * 2^(k-1) ms (2000,
\* 4000, 8000); it is after the 4th failure that scrapeJobsFromPage throws
\* and that scrapeJobDetails returns its placeholder record, and a record
\* handed to save has what scrapeJobDetails returned, never undefined.
C26_BoundedRetries ==
    pager = "epso" =>
        /\ attempts <= 4
        /\ \A k \in 1..Len(sleeps) : sleeps[k] = 2000 * 2 ^ (k - 1)
        /\ Len(sleeps) <= 3
        /\ InRetryLoop => Len(sleeps) = retries
        /\ ppc \in {"fetch", "detail"} => attempts = retries + 1
        /\ ppc \in {"backoff", "detailBackoff"} => attempts = retries
        /\ InRetryLoop => retries <= 3
        /\ pageFailed /\ ppc = "persist" /\ cursor = 0 =>
              retries = 4 /\ attempts = 4 /\ sleeps = <<2000, 4000, 8000>>
        /\ jobDetails = "placeholder" =>
              attempts = 4 /\ sleeps = <<2000, 4000, 8000>>
        /\ jobDetails = "details" => retries < 4 /\ attempts = retries + 1
        /\ ppc = "save" => jobDetails \in {"details", "placeholder"}

\* The fetch of the second page failed four times; scrapeJobDetails then
\* failed four times on a job collected before, whose record goes to save
\* with the placeholder.
C26_Witness ==
    /\ pager = "epso"
    /\ pageFailed
    /\ page = 1
    /\ jobDetails = "placeholder"
    /\ attempts = 4
    /\ sleeps = <<2000, 4000, 8000>>
    /\ ppc = "save"

(***************************************************************************)
(* The RSS importer: importJobsFromRSS                                     *)
(***************************************************************************)
\* The <link> values of the feed's items.
RssLinks == Hrefs \ {Undefined}

\* The record an earlier import stored for the item with link h.
StoredItem(h) ==
    [ id           |-> 0,
      relativeLink |-> RelativeLinkOf("rss", h),
      applyLink    |-> ApplyLinkOf("rss", h, <<>>),
      source       |-> SourceOf("rss"),
      createdAt    |-> PublishedOf(h) ]

\* The feed has one item or more, and the store holds the records of some
\* items imported earlier.
InitRSS ==
    /\ QueueIdle(0)
    /\ variant = "resend"
    /\ NoPages
    /\ NoRecord
    /\ store \in SUBSET { StoredItem(h) : h \in RssLinks }
    /\ nextId = 1
    /\ otherSaves = 0
    /\ \E n \in 1..MaxRows : listing \in [1..n -> RssLinks]
    /\ adapter = "rss"
    /\ runNo = 0
    /\ pc = "idle"
    /\ idx = 0
    /\ existingLinks = {}
    /\ finalApplyLink = <<>>
    /\ preloaded = {}
    /\ verdict = [i \in Rows |-> "none"]
    /\ fetched = {}
    /\ saveResult = [i \in Rows |-> "none"]
    /\ contacts = {<<>>}
    /\ apiKey = FALSE
    /\ emails = <<>>
    /\ emailPos = 0
    /\ sentEmails = {}
    /\ awaited = 0
    /\ notified = {}
    /\ runLimit = MaxRuns
    /\ storeBefore = {}
    /\ savedCandidates = {}
    /\ stats = NoStats
    /\ conn = "none"

NextRSS ==
    \/ StartRun
    \/ ExamineRow
    \/ CheckDuplicate
    \/ SaveRecord

SpecRSS == InitRSS /\ [][NextRSS]_vars

\* C15: an import of a feed with one item whose link is the applyLink of a
\* record stored before saves nothing and skips that item.
C15_StoredItemSkipped ==
    ( /\ pc = "done"
      /\ Len(listing) = 1
      /\ \E r \in storeBefore : r.applyLink = listing[1] )
        => /\ store = storeBefore
           /\ verdict[1] = "duplicate"
           /\ saveResult[1] = "none"

\* The import of a one-item feed ended, the item's link being stored before
\* the store was first imported into.
C15_Witness ==
    /\ pc = "done"
    /\ runNo = 1
    /\ Len(listing) = 1
    /\ \E r \in storeBefore : r.applyLink = listing[1]
    /\ verdict[1] = "duplicate"

(***************************************************************************)
(* The record a loop body builds from one candidate                        *)
(*                                                                         *)
(* Strings are sequences of tokens: a word, or a single character.         *)
(***************************************************************************)
Words == { "Intern", "internship", "trainee", "junior", "assistant",
           "senior", "Manager", "lead", "clerk" }

TitleTokens == Words \cup { " ", "_", "-", "!" }

\* String.prototype.toLowerCase, token by token
Lower(tok) ==
    CASE tok = "Intern"  -> "intern"
      [] tok = "Manager" -> "manager"
      [] tok = "Acme"    -> "acme"
      [] OTHER           -> tok

toLowerCase(str) == [i \in 1..Len(str) |-> Lower(str[i])]

\* The keywords that are substrings of a token.
Parts(tok) == IF tok = "internship" THEN {"internship", "intern"} ELSE {tok}

\* String.prototype.includes(kw) for a keyword kw
includes(str, kw) == \E i \in 1..Len(str) : kw \in Parts(str[i])

\* The classification in euractivJobs.js, part_003, part_005 and eu.js.
seniorityShort(title) ==
    LET lowered == toLowerCase(title)
    IN  IF includes(lowered, "intern") THEN "intern"
        ELSE IF includes(lowered, "junior") THEN "junior"
        ELSE IF includes(lowered, "senior") THEN "senior"
        ELSE "mid-level"

\* The classification in jobsin.js.
seniorityLong(title) ==
    LET loweredTitle == toLowerCase(title)
    IN  IF includes(loweredTitle, "internship")
           \/ includes(loweredTitle, "intern")
           \/ includes(loweredTitle, "trainee")
        THEN "intern"
        ELSE IF includes(loweredTitle, "junior")
                \/ includes(loweredTitle, "assistant")
        THEN "junior"
        ELSE IF includes(loweredTitle, "senior")
                \/ includes(loweredTitle, "manager")
                \/ includes(loweredTitle, "lead")
        THEN "senior"
        ELSE "mid-level"

\* seniority of the record each loop body builds (the RSS importer writes
\* the literal 'mid-level').
seniorityOf(a, title) ==
    CASE a = "jobsin" -> seniorityLong(title)
      [] a = "rss"    -> "mid-level"
      [] OTHER        -> seniorityShort(title)

(***************************************************************************)
(* generateSlug                                                            *)
(***************************************************************************)
\* \w matches letters, digits and the underscore; \s matches the blank.
IsWordChars(tok) == tok \notin { " ", "-", "!", "," }

RECURSIVE DropLeading(_, _)
DropLeading(str, c) ==
    IF str # <<>> /\ Head(str) = c THEN DropLeading(Tail(str), c) ELSE str

RECURSIVE DropTrailing(_, _)
DropTrailing(str, c) ==
    IF str # <<>> /\ str[Len(str)] = c
    THEN DropTrailing(SubSeq(str, 1, Len(str) - 1), c)
    ELSE str

\* String.prototype.trim
trim(str) == DropTrailing(DropLeading(str, " "), " ")

RECURSIVE SquashRuns(_, _, _)
\* str.replace(/c+/g, d): every maximal run of c becomes one d
SquashRuns(str, c, d) ==
    IF str = <<>> THEN <<>>
    ELSE IF Head(str) = c
         THEN <<d>> \o SquashRuns(DropLeading(Tail(str), c), c, d)
         ELSE <<Head(str)>> \o SquashRuns(Tail(str), c, d)

SlugChar(tok) == IsWordChars(tok) \/ tok = " " \/ tok = "-"

\* processString: lower-case, drop [^\w\s-], blanks to '-', squash '-', trim
processString(str) ==
    trim(SquashRuns(SquashRuns(SelectSeq(toLowerCase(str), SlugChar),
                               " ", "-"),
                    "-", "-"))

OrElse(str, fallback) == IF str = <<>> THEN fallback ELSE str

\* `${titleSlug}-at-${companySlug}-${shortId}`; id is the last six
\* characters of the uuid, one token here.
generateSlug(title, companyName, id) ==
    OrElse(processString(title), <<"untitled">>)
        \o <<"-", "at", "-">>
        \o OrElse(processString(companyName), <<"unknown", "-", "company">>)
        \o <<"-", id>>

(***************************************************************************)
(* city and country                                                        *)
(***************************************************************************)
LocTokens == { "Paris", "France", ",", " " }

RECURSIVE split(_, _)
\* String.prototype.split(sep): the segments between the separators
split(str, sep) ==
    IF \E i \in 1..Len(str) : str[i] = sep
    THEN LET i == CHOOSE k \in 1..Len(str) :
                     str[k] = sep /\ \A j \in 1..(k - 1) : str[j] # sep
         IN  <<SubSeq(str, 1, i - 1)>>
                 \o split(SubSeq(str, i + 1, Len(str)), sep)
    ELSE <<str>>

\* jobsin.js: first and last of the trimmed segments when there is a comma.
locationJobsin(location) ==
    IF includes(location, ",")
    THEN LET parts == [i \in 1..Len(split(location, ",")) |->
                          trim(split(location, ",")[i])]
         IN  [ city |-> parts[1], country |-> parts[Len(parts)] ]
    ELSE [ city |-> location, country |-> <<>> ]

\* part_004 importJobsFromRSS:
\*   const [city = '', country = ''] = locationStr.split(',').map(trim)
locationRSS(locationStr) ==
    LET parts == [i \in 1..Len(split(locationStr, ",")) |->
                     trim(split(locationStr, ",")[i])]
    IN  [ city    |-> parts[1],
          country |-> IF Len(parts) >= 2 THEN parts[2] ELSE <<>> ]

\* city and country of the record each loop body builds.
locationOf(a, location) ==
    CASE a = "jobsin"   -> locationJobsin(location)
      [] a = "rss"      -> locationRSS(location)
      [] a = "euractiv" -> [ city |-> location, country |-> location ]
      [] OTHER          -> [ city |-> location, country |-> <<>> ]

(***************************************************************************)
(* The addresses found in a text                                           *)
(***************************************************************************)
TextTokens == { "jobs@example.eu", "hr@example.eu", "or" }

IsAddress(tok) == tok \in { "jobs@example.eu", "hr@example.eu" }

\* extractEmailsFromText: text.match(EMAIL_PATTERN) || []
extractEmailsFromText(text) == SelectSeq(text, IsAddress)

\* The emails the loop body has in hand for the candidate: the detail
\* fetch of Euractiv and Eurobrussels returns [...new Set(emails)], jobsin
\* takes extractEmailsFromText(description) as it is, the others scan
\* nothing.
emailsOf(a, text) ==
    CASE a \in {"euractiv", "eurobrussels"} -> Uniq(extractEmailsFromText(text))
      [] a = "jobsin"                       -> extractEmailsFromText(text)
      [] OTHER                              -> <<>>

\* null, and a field the object literal does not set
Null == "null"

\* contactEmail of the record each loop body builds:
\*   contactEmail: emails.length > 0 ? emails[0] : null
\* in Euractiv and Eurobrussels, '' in the RSS importer, unset in EPSO.
\* (jobsin.js writes the shorthand `contactEmail,` and binds no such name.)
contactEmailOf(a, ems) ==
    CASE a \in {"euractiv", "eurobrussels"} ->
            IF Len(ems) > 0 THEN ems[1] ELSE Null
      [] a = "rss" -> ""
      [] OTHER     -> Null

(***************************************************************************)
(* One candidate through one loop body                                     *)
(***************************************************************************)
Builders == { "euractiv", "eurobrussels", "epso", "rss", "jobsin" }

Seqs(S, n) == UNION { [1..k -> S] : k \in 0..n }

\* The tokens of an href: the origin of an absolute URL, and characters.
Origin == "https://jobs.euractiv.com"

LinkTokens == { Origin, "/", "a", "?" }

\* The candidates looked at: each varies one of title, location, dates,
\* text and href, the rest being plain.
Sources ==
    LET plain == [ slice |-> "plain", title |-> <<"clerk">>,
                   company |-> <<"Acme">>, id |-> "9f3a1c",
                   location |-> <<"Paris">>, published |-> 0,
                   deadline |-> None, now |-> 0, text |-> <<>>,
                   href |-> <<"/", "a">> ]
    IN  { [plain EXCEPT !.slice = "title", !.title = t, !.company = c] :
              t \in Seqs(TitleTokens, MaxTitleLen),
              c \in { <<>>, <<"Acme">> } }
        \cup { [plain EXCEPT !.slice = "location", !.location = l] :
                   l \in Seqs(LocTokens, MaxLocLen) }
        \cup { [plain EXCEPT !.slice = "dates", !.published = p,
                             !.deadline = d, !.now = n] :
                   p \in Days, d \in Days \cup {None}, n \in Days }
        \cup { [plain EXCEPT !.slice = "text", !.text = x] :
                   x \in Seqs(TextTokens, MaxTextLen) }
        \cup { [plain EXCEPT !.slice = "href", !.href = h] :
                   h \in Seqs(LinkTokens, MaxLinkLen) \ {<<>>} }

\* jobsin.js builds its JobModel from an object literal that reads
\* contactEmail, which is declared nowhere: the ReferenceError goes to the
\* catch of the loop body and no record exists.
Constructs(a) == a # "jobsin"

\* The loop body of adapter a computes the fields and builds the record.
BuildRecord ==
    /\ builder = "none"
    /\ \E a \in Builders :
         /\ builder' = a
         /\ newJob' = [ built       |-> TRUE,
                     constructed |-> Constructs(a),
                     saved       |-> FALSE,
                     seniority   |-> seniorityOf(a, src.title),
                     slug        |-> generateSlug(src.title, src.company,
                                                  src.id),
                     city        |-> locationOf(a, src.location).city,
                     country     |-> locationOf(a, src.location).country,
                     createdAt   |-> datesOf(a, src.published, src.deadline,
                                             src.now).createdAt,
                     expiresOn   |-> datesOf(a, src.published, src.deadline,
                                             src.now).expiresOn,
                     emails      |-> emailsOf(a, src.text),
                     contactEmail |->
                        contactEmailOf(a, emailsOf(a, src.text)),
                     relativeLink |-> RelativeLinkOf(a, src.href) ]
    /\ UNCHANGED src
    /\ UNCHANGED << qvars, avars, pvars >>

\* await save() of the record succeeds.
SaveBuilt ==
    /\ newJob.built
    /\ newJob.constructed
    /\ ~newJob.saved
    /\ newJob' = [newJob EXCEPT !.saved = TRUE]
    /\ UNCHANGED << src, builder >>
    /\ UNCHANGED << qvars, avars, pvars >>

InitRecord ==
    /\ QueueIdle(0)
    /\ variant = "resend"
    /\ NoRun
    /\ NoPages
    /\ src \in Sources
    /\ builder = "none"
    /\ newJob = NotBuilt

NextRecord == BuildRecord \/ SaveBuilt

SpecRecord == InitRecord /\ [][NextRecord]_vars

Saved == newJob.built /\ newJob.constructed /\ newJob.saved

\* C16: every saved record has expiresOn strictly after createdAt.
C16_ExpiresAfterCreated ==
    Saved => newJob.expiresOn > newJob.createdAt

\* The classification the specification gives.
SpecifiedSeniority(title) ==
    LET t == toLowerCase(title)
    IN  IF includes(t, "intern") \/ includes(t, "trainee") THEN "intern"
        ELSE IF includes(t, "junior") \/ includes(t, "assistant")
        THEN "junior"
        ELSE IF includes(t, "senior") \/ includes(t, "manager")
                \/ includes(t, "lead")
        THEN "senior"
        ELSE "mid-level"

\* C17: the seniority of every record built is that classification of its
\* title, one of the four tiers.
C17_SeniorityByPriority ==
    newJob.built /\ newJob.constructed =>
        /\ newJob.seniority = SpecifiedSeniority(src.title)
        /\ newJob.seniority \in {"intern", "junior", "senior", "mid-level"}

\* The tokens made of characters of [a-z0-9-] only.
InSlugAlphabet(tok) ==
    tok \in { Lower(w) : w \in Words }
            \cup { "acme", "at", "untitled", "unknown", "company", "-",
                   "9f3a1c" }

\* C18: the slug is a function of title, company and id, and has no
\* character outside [a-z0-9-].
C18_SlugAlphabet ==
    newJob.built =>
        /\ newJob.slug = generateSlug(src.title, src.company, src.id)
        /\ \A i \in 1..Len(newJob.slug) : InSlugAlphabet(newJob.slug[i])

\* C19: with a comma in the location, city is its first segment and country
\* its last; without, city is the whole string and country is empty.
C19_CityAndCountry ==
    Saved =>
        LET parts == split(src.location, ",")
        IN  IF includes(src.location, ",")
            THEN /\ newJob.city = trim(parts[1])
                 /\ newJob.country = trim(parts[Len(parts)])
            ELSE /\ newJob.city = src.location
                 /\ newJob.country = <<>>

\* C20: the emails the loop body has for a candidate are the addresses of
\* the scanned text in order of first occurrence, each once.
C20_EmailsOnceInOrder ==
    newJob.built /\ builder \in {"euractiv", "eurobrussels", "jobsin"} =>
        newJob.emails = Uniq(extractEmailsFromText(src.text))

\* C25: in the structured-content API adapter the record of every
\* candidate that has content and is not a duplicate is built and handed to
\* save, its contactEmail being the first address found, or null.
C25_JobsinReachesSave ==
    newJob.built /\ builder = "jobsin" =>
        /\ newJob.constructed
        /\ newJob.contactEmail =
             IF Len(newJob.emails) > 0 THEN newJob.emails[1] ELSE Null

\* The origin of an absolute URL, dropped.
StripOrigin(link) ==
    IF link # <<>> /\ Head(link) = Origin THEN Tail(link) ELSE link

\* C27: the relativeLink normalizeLink makes of an href is the href without
\* its origin, without everything from the first '?', and without one
\* trailing slash, the root path '/' staying '/'.
C27_NormalizedLink ==
    newJob.built /\ builder \in {"euractiv", "eurobrussels", "epso"} =>
        LET path == StripOrigin(BeforeQuery(src.href))
        IN  newJob.relativeLink =
                IF path = <<"/">> THEN path ELSE StripTrailingSlash(path)

====
